---- MODULE Spec2Model ----
(***************************************************************************)
(* Model of the EmuBuddy launcher's file downloader                        *)
(* (downloadWithProgress, downloadParallel, downloadChunk,                 *)
(* downloadChunkAttempt, downloadSingle),                                  *)
(* with the launcher's downloadSelected and downloadGame around it, and of *)
(* the command-line downloader romget (downloadFile, downloadAttempt).     *)
(*                                                                         *)
(* Sizes are counted in abstract units: one unit stands for a block of     *)
(* bytes, and the byte at offset i of the remote resource is Source(i).    *)
(* A byte of value 0 is a hole left by Truncate and never written.         *)
(***************************************************************************)
EXTENDS Integers, Sequences, FiniteSets, TLC

\* ---------------------------------------------------------------- bounds
\* Largest Content-Length the server announces.
MaxTotalSize == 5
\* Largest Content-Length when the fetchers are checked on their own.
MaxFetchTotal == 7
\* Largest number of units one Read call returns in a chunk fetch.
ReadBufSize == 2
\* Bounds of the inputs of the chunk planner when it is checked on its own.
\* Number of ranged GETs that a server which mishandles the Range header
\* answers off-range.
MaxOddResponses == 2
MaxPlanTotal == 20
MaxPlanWorkers == 5
MaxPlanMinChunk == 4
\* Largest value of the command-line downloader's -r flag (its default is 3).
MaxRetries == 3
\* Largest Content-Length the command-line downloader is given.
MaxCliTotal == 4
\* Size of the worker pool when it is checked with more chunks than workers.
PoolWorkers == 2
\* The installer: number of emulators in its table, largest archive, and how
\* many times it is run on the same directory.
NumEmulators == 2
MaxArchiveSize == 2
MaxRuns == 2

\* ------------------------------------------------------ program constants
numDownloadWorkers == 4
\* 4 MiB in the source; here 2 units, so that a parallel download has few
\* enough chunks to explore every interleaving of its workers.
minChunkSize == 2
maxChunkRetries == 3
\* the buffer of downloadSingle's bufio.Writer and of its Read calls
\* (1 MiB each in the source; here 2 units)
singleBufSize == 2
\* the command-line downloader's bufferSize (1 MiB in the source; 2 units)
bufferSize == 2

\* (a job channel that holds one chunk)
chunksCap_One(workers) == 1

\* capacity of the job channel: make(chan chunk, numDownloadWorkers*2)
chunksCap(workers) == workers * 2

\* capacity of the error channel: make(chan error, numDownloadWorkers)
errChanCap(workers) == workers

Min(a, b) == IF a < b THEN a ELSE b
Max(a, b) == IF a > b THEN a ELSE b

\* The byte of the remote resource at offset i (distinct per offset, never 0).
Source(i) == i + 1

\* ----------------------------------------------------------------- state
VARIABLES
    oddLeft,         \* ranged GETs the server may still answer off-range
    history,         \* what is recorded of the chunks' attempts: "partial"
                     \* (the field `partial` of a job), "tries" (the variable
                     \* `tries`); it is history only, no action depends on it
    totalSize,       \* headResp.ContentLength
    supportsRange,   \* headResp.Header.Get("Accept-Ranges") == "bytes"
    pc,              \* position of the goroutine running downloadWithProgress
    result,          \* "none" while running, then "ok" (nil) or "err"
    destExists,      \* a file exists at outputPath
    fileData,        \* content of the file at outputPath (sequence of bytes)
    outOpen,         \* the handle `out` is open
    workerCount,     \* the planner's worker count (numDownloadWorkers)
    minChunk,        \* the planner's minimum chunk size (minChunkSize)
    chunkSize,       \* downloadParallel: chunkSize
    nextStart,       \* downloadParallel: loop variable `start` of the queue loop
    plan,            \* every chunk the queue loop has produced so far
    chunks,          \* the job channel (sequence of [start, end])
    chunksClosed,    \* close(chunks) was executed
    errChan,         \* number of errors buffered in errChan
    idle,            \* worker goroutines blocked in `for c := range chunks`
    exited,          \* worker goroutines that have returned (wg.Done())
    jobs,            \* chunk start -> locals of the goroutine fetching that chunk
    received,        \* chunk starts that were received from the channel
    twice,           \* some chunk was received a second time
    chunkProgress,   \* map[int64]int64: chunk start -> bytes downloaded
    lastProgress,    \* the value the progress callback received last
    calls,           \* the progress callback was invoked at least once
    succeeded,       \* chunk starts for which downloadChunk returned nil, in
                     \* the order in which they completed
    rewritten,       \* those of them fetched again after a failed attempt that
                     \* had already written part of the range
    failedChunks,    \* chunk starts for which downloadChunk returned an error
    sresp,           \* downloadSingle: the response body still to be read
    buffered,        \* downloadSingle: bytes held by bufferedOut
    downloaded,      \* downloadSingle: `downloaded`
    gpc,             \* App: "idle", or "downloading" while downloadGame's
                     \* goroutine runs
    cancelled,       \* downloadGame: `cancelled`, set when the dialog is closed
    romCache,        \* App: a.romCache[game.Name]
    existed,         \* a file existed at outputPath when the download was
                     \* invoked (history only)
    tempExists,      \* downloadAttempt: a file exists at tempPath
    tempData,        \* downloadAttempt: content of the file at tempPath
    fileAttempt,     \* downloadFile: `attempt`
    retries,         \* downloadFile: `retries`
    sleeps,          \* downloadFile: number of time.Sleep calls so far
    lastErr,         \* downloadFile: `lastErr`, as the number of the attempt
                     \* whose error it holds (0: nil)
    headErr,         \* why the HEAD request failed: "none", "request"
                     \* (http.NewRequest) or "transport" (client.Do)
    requested,       \* the download has sent an HTTP request (history only)
    writeFailed,     \* chunk starts for which out.WriteAt returned an error
    tries,           \* chunk start -> the attempt (0-based) that fetched it,
                     \* recorded when "tries" is in `history`
    errOrder,        \* the chunk starts whose errors were sent on errChan, in
                     \* the order of the sends, recorded when "errors" is in
                     \* `history`
    returned,        \* the chunk start whose error downloadParallel returned
                     \* (-1: none), known when "errors" is in `history`
    inside,          \* chunk starts whose goroutine is between
                     \* progressMu.Lock() and progressMu.Unlock()
    latest,          \* chunk start -> the value of the latest updateProgress
                     \* call for it that has taken the lock (history only)
    writerErr,       \* downloadSingle: bufferedOut has recorded a write error
                     \* (the sticky `err` of bufio.Writer)
    errorShown,      \* downloadGame: dialog.ShowError was called
    extracted,       \* downloadGame: extractZip was called
    platform,        \* installer: runtime.GOOS
    emulators,       \* installer: the emulator table, as far as the loop reads it
    installed,       \* installer: emulators whose extractPath exists
    archive,         \* installer: emulator -> bytes in the file at its
                     \* downloadPath (-1: no file)
    ipc,             \* installer: position of main
    emuIndex,        \* installer: the emulator of the current iteration (i + 1)
    installedCount,  \* installer: installedCount
    skippedCount,    \* installer: skippedCount
    failedEmulators, \* installer: failedEmulators
    linuxManualInstalls, \* installer: linuxManualInstalls
    runs             \* installer: how many times the installer was started

envVars == <<oddLeft, history, totalSize, supportsRange, workerCount, minChunk>>
fileVars == <<destExists, fileData, outOpen>>
queueVars == <<chunkSize, nextStart, plan, chunks, chunksClosed>>
progressVars == <<chunkProgress, lastProgress, calls>>
outcomeVars == <<errChan, succeeded, rewritten, failedChunks>>
wk == <<idle, exited, jobs, received, twice>>
singleVars == <<sresp, buffered, downloaded>>
appVars == <<gpc, cancelled, romCache, existed>>
cliVars == <<tempExists, tempData, fileAttempt, retries, sleeps, lastErr>>
ghostVars == <<headErr, requested, writeFailed, tries>>
errVars == <<errOrder, returned>>
syncVars == <<inside, latest>>
dialogVars == <<errorShown, extracted>>
instVars == <<platform, emulators, installed, archive, ipc, emuIndex,
              installedCount, skippedCount, failedEmulators,
              linuxManualInstalls, runs>>
\* what the launcher's downloader had no need of before
otherVars == <<errVars, syncVars, writerErr, dialogVars, instVars>>

vars == <<envVars, pc, result, fileVars, queueVars, wk, progressVars,
          outcomeVars, singleVars, appVars, cliVars, ghostVars, otherVars>>

\* ----------------------------------------------------------- file system
Zeros(n) == [i \in 1..n |-> 0]

\* (*os.File).WriteAt: writes bytes at offset pos (0-based), extending the
\* file when the write goes past its end.
WriteAt(f, pos, bytes) ==
    [i \in 1..Max(Len(f), pos + Len(bytes)) |->
        IF i > pos /\ i <= pos + Len(bytes) THEN bytes[i - pos]
        ELSE IF i <= Len(f) THEN f[i] ELSE 0]

\* (an os.Remove that removes nothing)
RemoveOutcomes_Never(open) == {FALSE}

\* os.Remove(outputPath), whose error the callers ignore.  A file without an
\* open handle is removed.  A file whose handle is still open is removed on
\* Unix, and is left in place on Windows (Go opens files without
\* FILE_SHARE_DELETE, so the deletion fails with a sharing violation).
RemoveOutcomes(open) == IF open THEN {TRUE, FALSE} ELSE {TRUE}

\* ---------------------------------------------------------- chunk planner
\* (the minimum chunk size not applied)
PlanChunkSize_NoMinimum(total, workers, minChunkSz) == total \div workers

\* chunkSize := totalSize / numDownloadWorkers; raised to minChunkSize
PlanChunkSize(total, workers, minChunkSz) == Max(total \div workers, minChunkSz)

\* (the planner without the clamp of the last chunk's end)
ChunkEnd_NoClamp(start, csize, total) == start + csize - 1

\* end := start + chunkSize - 1, clamped to totalSize - 1
ChunkEnd(start, csize, total) ==
    IF start + csize - 1 >= total THEN total - 1 ELSE start + csize - 1

\* ------------------------------------------------------------- responses
\* The body of a response: `len` units starting at resource offset `base`,
\* followed by io.EOF (cut = FALSE) or by a transport error (cut = TRUE).
NoBody == [base |-> 0, rem |-> 0, cut |-> FALSE]

\* What a server that honours the Range header answers to
\* GET with Range: bytes=start-end.
\*   "fail": client.Do fails, the status is neither 206 nor 200, or the
\*           first Read fails: the attempt ends before any byte is written;
\*   "206":  the requested range, whole, or cut by a transport error.
RangeResponses(start, end) ==
    LET rlen == end - start + 1 IN
    {[kind |-> "fail", base |-> 0, len |-> 0, cut |-> FALSE]}
    \cup {[kind |-> "206", base |-> start, len |-> rlen, cut |-> FALSE]}
    \cup {[kind |-> "206", base |-> start, len |-> k, cut |-> TRUE] : k \in 1..(rlen - 1)}

\* What a server that ignores or mishandles the Range header may answer in
\* addition: 200 with the whole resource, or 206 with a body that is shorter
\* or longer than the requested range.
OtherResponses(start, end, total) ==
    LET rlen == end - start + 1 IN
    {[kind |-> "200", base |-> 0, len |-> total, cut |-> FALSE]}
    \cup {[kind |-> "206", base |-> start, len |-> k, cut |-> FALSE] :
             k \in {rlen - 1, rlen + 1}}

ChunkResponses(start, end) ==
    RangeResponses(start, end)
    \cup IF oddLeft > 0 THEN OtherResponses(start, end, totalSize) ELSE {}

\* the response r is one of the off-range ones
IsOdd(r, start, end) == r \notin RangeResponses(start, end)

\* the bytes a Read of n units delivers from a body positioned at `base`
BodyBytes(base, n) == [j \in 1..n |-> Source(base + j - 1)]

\* ------------------------------------------------------ progress tracking
\* for _, v := range chunkProgress { total += v }
Sum(f) ==
    LET RECURSIVE S(_)
        S(D) == IF D = {} THEN 0
                ELSE LET k == CHOOSE x \in D : TRUE IN f[k] + S(D \ {k})
    IN S(DOMAIN f)

\* (the value added to the chunk's entry)
SetProgress_Add(cp, chunkStart, v) ==
    [k \in DOMAIN cp \cup {chunkStart} |->
        IF k = chunkStart THEN (IF k \in DOMAIN cp THEN cp[k] ELSE 0) + v
        ELSE cp[k]]

\* chunkProgress[chunkStart] = totalForChunk
SetProgress(cp, chunkStart, v) ==
    [k \in DOMAIN cp \cup {chunkStart} |-> IF k = chunkStart THEN v ELSE cp[k]]

\* downloadGame's goroutine is running and the dialog is open
AppDownloading ==
    /\ gpc = "downloading"
    /\ cancelled = FALSE
    /\ romCache = FALSE
    /\ existed = FALSE

\* the command-line downloader is not in use
CliUnused ==
    /\ tempExists = FALSE
    /\ tempData = <<>>
    /\ fileAttempt = 0
    /\ retries = 0
    /\ sleeps = 0
    /\ lastErr = 0

NoHistory ==
    /\ headErr = "none"
    /\ requested = FALSE
    /\ writeFailed = {}
    /\ tries = <<>>

\* the installer is not in use
InstallerUnused ==
    /\ platform = "windows"
    /\ emulators = <<>>
    /\ installed = {}
    /\ archive = <<>>
    /\ ipc = "unused"
    /\ emuIndex = 0
    /\ installedCount = 0
    /\ skippedCount = 0
    /\ failedEmulators = <<>>
    /\ linuxManualInstalls = <<>>
    /\ runs = 0

\* nothing has happened yet to what `otherVars` holds
OthersInitial ==
    /\ errOrder = <<>>
    /\ returned = -1
    /\ inside = {}
    /\ latest = <<>>
    /\ writerErr = FALSE
    /\ errorShown = FALSE
    /\ extracted = FALSE
    /\ InstallerUnused

InitDownload ==
    /\ pc = "head"
    /\ result = "none"
    /\ destExists = FALSE
    /\ fileData = <<>>
    /\ outOpen = FALSE
    /\ chunkSize = 0
    /\ nextStart = 0
    /\ plan = <<>>
    /\ chunks = <<>>
    /\ chunksClosed = FALSE
    /\ errChan = 0
    /\ idle = 0
    /\ exited = 0
    /\ jobs = <<>>
    /\ received = {}
    /\ twice = FALSE
    /\ chunkProgress = <<>>
    /\ lastProgress = 0
    /\ calls = FALSE
    /\ succeeded = <<>>
    /\ rewritten = {}
    /\ failedChunks = {}
    /\ sresp = NoBody
    /\ buffered = <<>>
    /\ downloaded = 0

\* A download from a server that honours the Range header.
Init ==
    /\ oddLeft = 0
    /\ history = {}
    /\ totalSize \in 1..MaxTotalSize
    /\ supportsRange \in BOOLEAN
    /\ workerCount = numDownloadWorkers
    /\ minChunk = minChunkSize
    /\ InitDownload
    /\ AppDownloading
    /\ CliUnused
    /\ NoHistory
    /\ OthersInitial

\* ------------------------------------------------- downloadWithProgress
\* The function returns: the deferred out.Close() runs.
Return(r) ==
    /\ result' = r
    /\ pc' = "done"
    /\ outOpen' = FALSE

\* HEAD request: http.NewRequest or client.Do fails -> return err
ProbeFails ==
    /\ pc = "head"
    /\ \E why \in {"request", "transport"} :
         /\ headErr' = why
         /\ requested' = (why = "transport")
    /\ Return("err")
    /\ UNCHANGED <<writeFailed, tries>>
    /\ UNCHANGED otherVars
    /\ UNCHANGED <<appVars, cliVars>>
    /\ UNCHANGED <<envVars, destExists, fileData, queueVars, wk, progressVars,
                   outcomeVars, singleVars>>

\* (the threshold taken inclusively)
UseParallel_AtLeast(range, total) == range /\ total >= minChunkSize * 2

\* supportsRange && totalSize > minChunkSize*2
UseParallel(range, total) == range /\ total > minChunkSize * 2

\* HEAD request answered: choose the parallel or the single-stream path
Probe ==
    /\ pc = "head"
    /\ IF UseParallel(supportsRange, totalSize)
       THEN /\ pc' = "p_create"
            /\ chunkSize' = PlanChunkSize(totalSize, workerCount, minChunk)
       ELSE /\ pc' = "s_request"
            /\ UNCHANGED chunkSize
    /\ requested' = TRUE
    /\ UNCHANGED <<headErr, writeFailed, tries>>
    /\ UNCHANGED otherVars
    /\ UNCHANGED <<appVars, cliVars>>
    /\ UNCHANGED <<envVars, result, fileVars, nextStart, plan, chunks,
                   chunksClosed, wk, progressVars, outcomeVars, singleVars>>

\* ------------------------------------------------------ downloadParallel
\* out, err := os.Create(outputPath); on error return err
ParCreate ==
    /\ pc = "p_create"
    /\ \/ /\ Return("err")
          /\ UNCHANGED <<destExists, fileData>>
       \/ /\ destExists' = TRUE
          /\ fileData' = <<>>
          /\ outOpen' = TRUE
          /\ pc' = "p_truncate"
          /\ UNCHANGED result
    /\ UNCHANGED otherVars
    /\ UNCHANGED <<appVars, cliVars, ghostVars>>
    /\ UNCHANGED <<envVars, queueVars, wk, progressVars, outcomeVars, singleVars>>

\* out.Truncate(totalSize); on error return err.  On success the channels are
\* made and the worker goroutines (numDownloadWorkers of them) are started.
ParTruncate ==
    /\ pc = "p_truncate"
    /\ \/ /\ Return("err")
          /\ UNCHANGED <<fileData, wk>>
       \/ /\ fileData' = Zeros(totalSize)
          /\ idle' = workerCount
          /\ UNCHANGED <<exited, jobs, received, twice>>
          /\ pc' = "p_queue"
          /\ UNCHANGED <<result, outOpen>>
    /\ UNCHANGED otherVars
    /\ UNCHANGED <<appVars, cliVars, ghostVars>>
    /\ UNCHANGED <<envVars, destExists, queueVars, progressVars, outcomeVars,
                   singleVars>>

\* one iteration of the queue loop: chunks <- chunk{start, end}
ParQueue ==
    /\ pc = "p_queue"
    /\ nextStart < totalSize
    /\ Len(chunks) < chunksCap(workerCount)
    /\ LET c == [start |-> nextStart,
                 end |-> ChunkEnd(nextStart, chunkSize, totalSize)]
       IN /\ chunks' = Append(chunks, c)
          /\ plan' = Append(plan, c)
    /\ nextStart' = nextStart + chunkSize
    /\ UNCHANGED otherVars
    /\ UNCHANGED <<appVars, cliVars, ghostVars>>
    /\ UNCHANGED <<envVars, pc, result, fileVars, chunkSize, chunksClosed, wk,
                   progressVars, outcomeVars, singleVars>>

\* the queue loop ends: close(chunks)
ParClose ==
    /\ pc = "p_queue"
    /\ nextStart >= totalSize
    /\ chunksClosed' = TRUE
    /\ pc' = "p_wait"
    /\ UNCHANGED otherVars
    /\ UNCHANGED <<appVars, cliVars, ghostVars>>
    /\ UNCHANGED <<envVars, result, fileVars, chunkSize, nextStart, plan,
                   chunks, wk, progressVars, outcomeVars, singleVars>>

\* (the error sent last)
FirstError_Last(q) == q[Len(q)]

\* for err := range errChan: the first value received from the channel
FirstError(q) == Head(q)

\* (the error channel never looked at)
HasError_Ignored(n) == FALSE

\* for err := range errChan { if err != nil {...} }: some error was sent
HasError(n) == n > 0

\* wg.Wait(); close(errChan); the error loop: on the first error
\* os.Remove(outputPath) and return it, otherwise return nil
ParWait ==
    /\ pc = "p_wait"
    /\ exited = workerCount
    /\ IF HasError(errChan)
       THEN /\ \E removed \in RemoveOutcomes(outOpen) :
                 /\ destExists' = (destExists /\ ~removed)
                 /\ fileData' = IF removed THEN <<>> ELSE fileData
            /\ returned' = IF errOrder /= <<>> THEN FirstError(errOrder) ELSE returned
            /\ Return("err")
       ELSE /\ Return("ok")
            /\ UNCHANGED <<destExists, fileData, returned>>
    /\ UNCHANGED <<errOrder, syncVars, writerErr, dialogVars, instVars>>
    /\ UNCHANGED <<appVars, cliVars, ghostVars>>
    /\ UNCHANGED <<envVars, queueVars, wk, progressVars, outcomeVars, singleVars>>

\* ------------------------------------------------------ worker goroutines
\* The numDownloadWorkers goroutines are identical closures without an
\* identity of their own: `idle` counts those blocked in the receive,
\* `exited` those that have returned, and jobs[s] holds the locals of the one
\* that is fetching the chunk starting at s.

\* the locals of a goroutine that has just received chunk c
\* (partial: an earlier attempt of this chunk failed after it had written;
\* slept: the seconds downloadChunk slept before the current attempt)
NewJob(c) == [pc |-> "attempt", end |-> c.end, attempt |-> 0, pos |-> 0,
              chunkDownloaded |-> 0, base |-> 0, rem |-> 0, cut |-> FALSE,
              pending |-> 0, partial |-> FALSE, slept |-> 0]

Put(f, k, v) == [x \in DOMAIN f \cup {k} |-> IF x = k THEN v ELSE f[x]]
Drop(f, k) == [x \in DOMAIN f \ {k} |-> f[x]]

\* (a receive that leaves the chunk in the channel)
Receive_Peek(q) == q

\* what is left in the channel after a receive
Receive(q) == Tail(q)

\* for c := range chunks: a blocked goroutine receives a chunk
WorkerRecv ==
    /\ idle > 0
    /\ chunks /= <<>>
    /\ received' = received \cup {Head(chunks).start}
    /\ twice' = (twice \/ Head(chunks).start \in received)
    /\ jobs' = Put(jobs, Head(chunks).start, NewJob(Head(chunks)))
    /\ idle' = idle - 1
    /\ chunks' = Receive(chunks)
    /\ UNCHANGED otherVars
    /\ UNCHANGED <<appVars, cliVars, ghostVars>>
    /\ UNCHANGED <<envVars, pc, result, fileVars, chunkSize, nextStart, plan,
                   chunksClosed, exited, progressVars, outcomeVars, singleVars>>

\* for c := range chunks: the channel is closed and drained; wg.Done()
WorkerDrained ==
    /\ idle > 0
    /\ chunks = <<>>
    /\ chunksClosed
    /\ idle' = idle - 1
    /\ exited' = exited + 1
    /\ UNCHANGED otherVars
    /\ UNCHANGED <<appVars, cliVars, ghostVars>>
    /\ UNCHANGED <<envVars, pc, result, fileVars, queueVars, jobs, received,
                   twice, progressVars, outcomeVars, singleVars>>

\* (one iteration too many)
MayRetry_OneMore(attempt) == attempt <= maxChunkRetries

\* attempt < maxChunkRetries, the condition of downloadChunk's retry loop
MayRetry(attempt) == attempt < maxChunkRetries

\* downloadChunk after a failed attempt: the next iteration of the retry
\* loop, or the terminal error, which the worker sends on errChan before it
\* returns (wg.Done()).  The locals of the failed attempt are gone.
AttemptFailed(s) ==
    IF MayRetry(jobs[s].attempt + 1)
    THEN /\ jobs' = [jobs EXCEPT ![s] =
                        [NewJob([end |-> jobs[s].end]) EXCEPT
                            !.pc = "backoff",
                            !.attempt = jobs[s].attempt + 1,
                            !.partial = jobs[s].partial
                                 \/ ("partial" \in history /\ jobs[s].chunkDownloaded > 0)]]
         /\ UNCHANGED <<errChan, failedChunks, exited, errOrder>>
    ELSE /\ errChan < errChanCap(workerCount)
         /\ errChan' = errChan + 1
         /\ errOrder' = IF "errors" \in history THEN Append(errOrder, s) ELSE errOrder
         /\ failedChunks' = failedChunks \cup {s}
         /\ jobs' = Drop(jobs, s)
         /\ exited' = exited + 1

\* (a retry that resumes behind what the failed attempt had written)
AttemptStartPos_Resume(start, partial) == IF partial THEN start + 1 ELSE start

\* pos := start: every attempt writes from the start of the range, also
\* when an earlier attempt has already written part of it
AttemptStartPos(start, partial) == start

\* (the write offset never advanced)
NextPos_Stuck(pos, n) == pos

\* pos += int64(n)
NextPos(pos, n) == pos + n

\* downloadChunkAttempt up to the read loop: the request and its response
WorkerRequest(s) ==
    /\ jobs[s].pc = "attempt"
    /\ \E r \in ChunkResponses(s, jobs[s].end) :
         /\ oddLeft' = IF IsOdd(r, s, jobs[s].end) THEN oddLeft - 1 ELSE oddLeft
         /\ IF r.kind = "fail"
            THEN AttemptFailed(s)
            ELSE /\ jobs' = [jobs EXCEPT ![s].pc = "read",
                                         ![s].pos = AttemptStartPos(s, jobs[s].partial),
                                         ![s].chunkDownloaded = 0,
                                         ![s].base = r.base,
                                         ![s].rem = r.len,
                                         ![s].cut = r.cut]
                 /\ UNCHANGED <<errChan, failedChunks, exited, errOrder>>
    /\ UNCHANGED <<returned, syncVars, writerErr, dialogVars, instVars>>
    /\ UNCHANGED <<appVars, cliVars, ghostVars>>
    /\ UNCHANGED <<history, totalSize, supportsRange, workerCount, minChunk, pc,
                   result, fileVars, queueVars, idle, received, twice,
                   progressVars, succeeded, rewritten, singleVars>>

\* one iteration of the read loop with n > 0: out.WriteAt(buf[:n], pos),
\* pos and chunkDownloaded advance, and the critical section of
\* updateProgress(start, chunkDownloaded) stores the value and sums the map.
WorkerRead(s) ==
    /\ jobs[s].pc = "read"
    /\ jobs[s].rem > 0
    /\ \E n \in 1..Min(jobs[s].rem, ReadBufSize) :
         /\ fileData' = WriteAt(fileData, jobs[s].pos, BodyBytes(jobs[s].base, n))
         /\ chunkProgress' = SetProgress(chunkProgress, s,
                                         jobs[s].chunkDownloaded + n)
         /\ jobs' = [jobs EXCEPT ![s].pc = "cb_read",
                                 ![s].pos = NextPos(@, n),
                                 ![s].chunkDownloaded = @ + n,
                                 ![s].base = @ + n,
                                 ![s].rem = @ - n,
                                 ![s].pending = Sum(chunkProgress')]
    /\ UNCHANGED otherVars
    /\ UNCHANGED <<appVars, cliVars, ghostVars>>
    /\ UNCHANGED <<envVars, pc, result, destExists, outOpen, queueVars, idle,
                   exited, received, twice, lastProgress, calls, outcomeVars,
                   singleVars>>

\* updateProgress after progressMu.Unlock(): progress(total, totalSize)
WorkerCallback(s) ==
    /\ jobs[s].pc \in {"cb_read", "cb_reset"}
    /\ lastProgress' = jobs[s].pending
    /\ calls' = TRUE
    /\ jobs' = [jobs EXCEPT ![s].pc = IF jobs[s].pc = "cb_read" THEN "read"
                                                                 ELSE "attempt",
                            ![s].pending = 0]
    /\ UNCHANGED otherVars
    /\ UNCHANGED <<appVars, cliVars, ghostVars>>
    /\ UNCHANGED <<envVars, pc, result, fileVars, queueVars, idle, exited,
                   received, twice, chunkProgress, outcomeVars, singleVars>>

\* the body ends: io.EOF ends the attempt with nil, downloadChunk returns
\* nil and the goroutine goes back to the receive; any other read error
\* fails the attempt
WorkerBodyEnd(s) ==
    /\ jobs[s].pc = "read"
    /\ jobs[s].rem = 0
    /\ IF jobs[s].cut
       THEN /\ AttemptFailed(s)
            /\ UNCHANGED <<succeeded, rewritten, idle, tries>>
       ELSE /\ jobs' = Drop(jobs, s)
            /\ idle' = idle + 1
            /\ succeeded' = Append(succeeded, s)
            /\ rewritten' = IF jobs[s].partial THEN rewritten \cup {s} ELSE rewritten
            /\ tries' = IF "tries" \in history THEN Put(tries, s, jobs[s].attempt) ELSE tries
            /\ UNCHANGED <<errChan, failedChunks, exited, errOrder>>
    /\ UNCHANGED <<returned, syncVars, writerErr, dialogVars, instVars>>
    /\ UNCHANGED <<appVars, cliVars, headErr, requested, writeFailed>>
    /\ UNCHANGED <<envVars, pc, result, fileVars, queueVars, received, twice,
                   progressVars, singleVars>>

\* time.Duration(attempt) * time.Second, in seconds
Backoff(attempt) == attempt

\* downloadChunk with attempt > 0: time.Sleep(attempt seconds), then the
\* critical section of updateProgress(start, 0)
WorkerBackoff(s) ==
    /\ jobs[s].pc = "backoff"
    /\ chunkProgress' = SetProgress(chunkProgress, s, 0)
    /\ jobs' = [jobs EXCEPT ![s].pc = "cb_reset",
                            ![s].slept = Backoff(jobs[s].attempt),
                            ![s].pending = Sum(chunkProgress')]
    /\ UNCHANGED otherVars
    /\ UNCHANGED <<appVars, cliVars, ghostVars>>
    /\ UNCHANGED <<envVars, pc, result, fileVars, queueVars, idle, exited,
                   received, twice, lastProgress, calls, outcomeVars, singleVars>>

\* -------------------------------------------------------- downloadSingle
\* What the server answers to the plain GET: a failure (client.Do fails or
\* the status is not 200), or the whole resource, possibly cut by a
\* transport error after k units.
SingleResponses(total) ==
    {[kind |-> "fail", base |-> 0, len |-> 0, cut |-> FALSE]}
    \cup {[kind |-> "200", base |-> 0, len |-> total, cut |-> FALSE]}
    \cup {[kind |-> "200", base |-> 0, len |-> k, cut |-> TRUE] : k \in 0..(total - 1)}

\* the request and the status check; on failure return err
SingleRequest ==
    /\ pc = "s_request"
    /\ \E r \in SingleResponses(totalSize) :
         IF r.kind = "fail"
         THEN /\ Return("err")
              /\ UNCHANGED sresp
         ELSE /\ sresp' = [base |-> r.base, rem |-> r.len, cut |-> r.cut]
              /\ pc' = "s_create"
              /\ UNCHANGED <<result, outOpen>>
    /\ UNCHANGED otherVars
    /\ UNCHANGED <<appVars, cliVars, ghostVars>>
    /\ UNCHANGED <<envVars, destExists, fileData, queueVars, wk, progressVars,
                   outcomeVars, buffered, downloaded>>

\* out, err := os.Create(outputPath); on error return err
SingleCreate ==
    /\ pc = "s_create"
    /\ \/ /\ Return("err")
          /\ UNCHANGED <<destExists, fileData>>
       \/ /\ destExists' = TRUE
          /\ fileData' = <<>>
          /\ outOpen' = TRUE
          /\ pc' = "s_read"
          /\ UNCHANGED result
    /\ UNCHANGED otherVars
    /\ UNCHANGED <<appVars, cliVars, ghostVars>>
    /\ UNCHANGED <<envVars, queueVars, wk, progressVars, outcomeVars, singleVars>>

\* (*bufio.Writer).Write: bytes that fit are kept in the buffer; when they
\* do not fit, the buffer is filled, written to the file, and the rest kept.
\* Gives <<file, buffer>>.
BufWriteSized(size, f, b, p) ==
    LET avail == size - Len(b) IN
    IF Len(p) <= avail
    THEN <<f, b \o p>>
    ELSE <<f \o b \o SubSeq(p, 1, avail), SubSeq(p, avail + 1, Len(p))>>

\* bufferedOut := bufio.NewWriterSize(out, 1024*1024)
BufWrite(f, b, p) == BufWriteSized(singleBufSize, f, b, p)

\* one iteration of the read loop with n > 0: bufferedOut.Write(buf[:n]),
\* which does nothing once the writer has recorded an error,
\* downloaded += n, progress(downloaded, total)
SingleRead ==
    /\ pc = "s_read"
    /\ sresp.rem > 0
    /\ \E n \in 1..Min(sresp.rem, singleBufSize) :
         LET w == IF writerErr THEN <<fileData, buffered>>
                  ELSE BufWrite(fileData, buffered, BodyBytes(sresp.base, n)) IN
         /\ fileData' = w[1]
         /\ buffered' = w[2]
         /\ sresp' = [sresp EXCEPT !.base = @ + n, !.rem = @ - n]
         /\ downloaded' = downloaded + n
         /\ lastProgress' = downloaded + n
         /\ calls' = TRUE
    /\ UNCHANGED otherVars
    /\ UNCHANGED <<appVars, cliVars, ghostVars>>
    /\ UNCHANGED <<envVars, pc, result, destExists, outOpen, queueVars, wk,
                   chunkProgress, outcomeVars>>

\* the body ends: io.EOF -> return nil, another read error -> return err;
\* either way the deferred bufferedOut.Flush() and out.Close() run (a writer
\* that has recorded an error flushes nothing)
SingleBodyEnd ==
    /\ pc = "s_read"
    /\ sresp.rem = 0
    /\ Return(IF sresp.cut THEN "err" ELSE "ok")
    /\ fileData' = IF writerErr THEN fileData ELSE fileData \o buffered
    /\ buffered' = IF writerErr THEN buffered ELSE <<>>
    /\ UNCHANGED otherVars
    /\ UNCHANGED <<appVars, cliVars, ghostVars>>
    /\ UNCHANGED <<envVars, destExists, queueVars, wk, progressVars,
                   outcomeVars, sresp, downloaded>>

\* ------------------------------------------------------------------ Next
Next ==
    \/ ProbeFails
    \/ Probe
    \/ ParCreate
    \/ ParTruncate
    \/ ParQueue
    \/ ParClose
    \/ ParWait
    \/ WorkerRecv
    \/ WorkerDrained
    \/ \E s \in DOMAIN jobs : WorkerRequest(s)
    \/ \E s \in DOMAIN jobs : WorkerRead(s)
    \/ \E s \in DOMAIN jobs : WorkerCallback(s)
    \/ \E s \in DOMAIN jobs : WorkerBodyEnd(s)
    \/ \E s \in DOMAIN jobs : WorkerBackoff(s)
    \/ SingleRequest
    \/ SingleCreate
    \/ SingleRead
    \/ SingleBodyEnd

Spec == Init /\ [][Next]_vars

\* ----------------------------------------------- the fetchers on their own
\* The state of downloadParallel after the first two chunks were queued and
\* received: two goroutines are about to fetch them.
FetchersStarted(odd) ==
    /\ oddLeft = odd
    /\ history = {"partial"}
    /\ totalSize \in (2 * minChunkSize + 1)..MaxFetchTotal
    /\ supportsRange = TRUE
    /\ workerCount = numDownloadWorkers
    /\ minChunk = minChunkSize
    /\ pc = "p_queue"
    /\ result = "none"
    /\ destExists = TRUE
    /\ fileData = Zeros(totalSize)
    /\ outOpen = TRUE
    /\ chunkSize = PlanChunkSize(totalSize, workerCount, minChunk)
    /\ nextStart = 2 * chunkSize
    /\ plan = <<[start |-> 0, end |-> ChunkEnd(0, chunkSize, totalSize)],
                [start |-> chunkSize,
                 end |-> ChunkEnd(chunkSize, chunkSize, totalSize)]>>
    /\ chunks = <<>>
    /\ chunksClosed = FALSE
    /\ errChan = 0
    /\ idle = workerCount - 2
    /\ exited = 0
    /\ jobs = [s \in {0, chunkSize} |-> NewJob(plan[IF s = 0 THEN 1 ELSE 2])]
    /\ received = {0, chunkSize}
    /\ twice = FALSE
    /\ chunkProgress = <<>>
    /\ lastProgress = 0
    /\ calls = FALSE
    /\ succeeded = <<>>
    /\ rewritten = {}
    /\ failedChunks = {}
    /\ sresp = NoBody
    /\ buffered = <<>>
    /\ downloaded = 0
    /\ AppDownloading
    /\ CliUnused
    /\ headErr = "none"
    /\ requested = TRUE
    /\ writeFailed = {}
    /\ tries = <<>>
    /\ OthersInitial

\* the steps of downloadChunk and downloadChunkAttempt
NextFetch ==
    \/ \E s \in DOMAIN jobs : WorkerRequest(s)
    \/ \E s \in DOMAIN jobs : WorkerRead(s)
    \/ \E s \in DOMAIN jobs : WorkerCallback(s)
    \/ \E s \in DOMAIN jobs : WorkerBodyEnd(s)
    \/ \E s \in DOMAIN jobs : WorkerBackoff(s)

\* Two fetchers against a server that may mishandle the Range header.
InitFetch == FetchersStarted(MaxOddResponses)

SpecFetch == InitFetch /\ [][NextFetch]_vars

\* Two fetchers against a server that honours the Range header.
InitRetry == FetchersStarted(0)

SpecRetry == InitRetry /\ [][NextFetch]_vars

\* ------------------------------------------------ the planner on its own
\* downloadParallel at its queue loop, for any total size, worker count and
\* minimum chunk size; no worker is scheduled.
InitPlan ==
    /\ oddLeft = 0
    /\ history = {}
    /\ totalSize \in 1..MaxPlanTotal
    /\ supportsRange = TRUE
    /\ workerCount \in 1..MaxPlanWorkers
    /\ minChunk \in 1..MaxPlanMinChunk
    /\ pc = "p_queue"
    /\ result = "none"
    /\ destExists = TRUE
    /\ fileData = Zeros(totalSize)
    /\ outOpen = TRUE
    /\ chunkSize = PlanChunkSize(totalSize, workerCount, minChunk)
    /\ nextStart = 0
    /\ plan = <<>>
    /\ chunks = <<>>
    /\ chunksClosed = FALSE
    /\ errChan = 0
    /\ idle = numDownloadWorkers
    /\ exited = 0
    /\ jobs = <<>>
    /\ received = {}
    /\ twice = FALSE
    /\ chunkProgress = <<>>
    /\ lastProgress = 0
    /\ calls = FALSE
    /\ succeeded = <<>>
    /\ rewritten = {}
    /\ failedChunks = {}
    /\ sresp = NoBody
    /\ buffered = <<>>
    /\ downloaded = 0
    /\ AppDownloading
    /\ CliUnused
    /\ headErr = "none"
    /\ requested = TRUE
    /\ writeFailed = {}
    /\ tries = <<>>
    /\ OthersInitial

NextPlan ==
    \/ ParQueue
    \/ ParClose

SpecPlan == InitPlan /\ [][NextPlan]_vars

\* ------------------------------------------- the fetchers on a failing disk
\* one iteration of the read loop with n > 0 in which out.WriteAt returns an
\* error after it has written k < n units: downloadChunkAttempt returns
\* writeErr to downloadChunk's retry loop
WorkerWriteFails(s) ==
    /\ jobs[s].pc = "read"
    /\ jobs[s].rem > 0
    /\ \E n \in 1..Min(jobs[s].rem, ReadBufSize) :
         \E k \in 0..(n - 1) :
             fileData' = WriteAt(fileData, jobs[s].pos, BodyBytes(jobs[s].base, k))
    /\ writeFailed' = writeFailed \cup {s}
    /\ AttemptFailed(s)
    /\ UNCHANGED <<returned, syncVars, writerErr, dialogVars, instVars>>
    /\ UNCHANGED <<appVars, cliVars, headErr, requested, tries>>
    /\ UNCHANGED <<envVars, pc, result, destExists, outOpen, queueVars, idle,
                   received, twice, progressVars, succeeded, rewritten,
                   singleVars>>

NextDisk ==
    \/ NextFetch
    \/ \E s \in DOMAIN jobs : WorkerWriteFails(s)

\* Two fetchers whose writes to the output file may fail.
SpecDisk == InitRetry /\ [][NextDisk]_vars

\* ------------------------------------------ a parallel download, recorded
\* downloadWithProgress for a resource that takes the parallel path, with the
\* history of each chunk's attempts recorded.
InitRecorded ==
    /\ oddLeft = 0
    /\ history = {"tries"}
    /\ totalSize \in (2 * minChunkSize + 1)..MaxTotalSize
    /\ supportsRange = TRUE
    /\ workerCount = numDownloadWorkers
    /\ minChunk = minChunkSize
    /\ InitDownload
    /\ AppDownloading
    /\ CliUnused
    /\ NoHistory
    /\ OthersInitial

NextParallel ==
    \/ Probe
    \/ ParCreate
    \/ ParTruncate
    \/ ParQueue
    \/ ParClose
    \/ ParWait
    \/ WorkerRecv
    \/ WorkerDrained
    \/ NextFetch

SpecRecorded == InitRecorded /\ [][NextParallel]_vars

\* ------------------------------------------ downloadSingle on a failing disk
\* one iteration of the read loop in which bufferedOut.Write has to empty its
\* buffer into the file and out.Write fails after k bytes: the writer keeps
\* what it could not write and records the error, Write returns it, and the
\* loop, which does not look at it, goes on: downloaded += n, progress(...)
SingleWriteFails ==
    /\ pc = "s_read"
    /\ sresp.rem > 0
    /\ ~writerErr
    /\ \E n \in 1..Min(sresp.rem, singleBufSize) :
         LET avail == singleBufSize - Len(buffered)
             full == buffered \o SubSeq(BodyBytes(sresp.base, n), 1, avail)
         IN /\ n > avail
            /\ \E k \in 0..(Len(full) - 1) :
                  /\ fileData' = fileData \o SubSeq(full, 1, k)
                  /\ buffered' = SubSeq(full, k + 1, Len(full))
            /\ sresp' = [sresp EXCEPT !.base = @ + n, !.rem = @ - n]
            /\ downloaded' = downloaded + n
            /\ lastProgress' = downloaded + n
            /\ calls' = TRUE
    /\ writerErr' = TRUE
    /\ UNCHANGED <<errVars, syncVars, dialogVars, instVars>>
    /\ UNCHANGED <<appVars, cliVars, ghostVars>>
    /\ UNCHANGED <<envVars, pc, result, destExists, outOpen, queueVars, wk,
                   chunkProgress, outcomeVars>>

\* the body ends and the deferred bufferedOut.Flush() fails after k bytes;
\* its error goes nowhere, and downloadSingle returns what the read loop
\* decided
SingleFlushFails ==
    /\ pc = "s_read"
    /\ sresp.rem = 0
    /\ ~writerErr
    /\ buffered /= <<>>
    /\ Return(IF sresp.cut THEN "err" ELSE "ok")
    /\ \E k \in 0..(Len(buffered) - 1) :
         /\ fileData' = fileData \o SubSeq(buffered, 1, k)
         /\ buffered' = SubSeq(buffered, k + 1, Len(buffered))
    /\ writerErr' = TRUE
    /\ UNCHANGED <<errVars, syncVars, dialogVars, instVars>>
    /\ UNCHANGED <<appVars, cliVars, ghostVars>>
    /\ UNCHANGED <<envVars, destExists, queueVars, wk, progressVars,
                   outcomeVars, sresp, downloaded>>

\* a download that takes the single-stream path
InitSingle ==
    /\ Init
    /\ ~UseParallel(supportsRange, totalSize)

NextSingleDisk ==
    \/ ProbeFails
    \/ Probe
    \/ SingleRequest
    \/ SingleCreate
    \/ SingleRead
    \/ SingleBodyEnd
    \/ SingleWriteFails
    \/ SingleFlushFails

\* downloadSingle writing to a disk that may fail.
SpecSingleDisk == InitSingle /\ [][NextSingleDisk]_vars

\* ------------------------------------------ updateProgress, step by step
\* WorkerRead and WorkerBackoff take the critical section of updateProgress
\* as one step.  Here the goroutine first arrives at progressMu.Lock(), then
\* takes the lock, and then stores, sums and unlocks.

\* one iteration of the read loop with n > 0, up to the call of
\* updateProgress(start, chunkDownloaded)
WorkerWrite(s) ==
    /\ jobs[s].pc = "read"
    /\ jobs[s].rem > 0
    /\ \E n \in 1..Min(jobs[s].rem, ReadBufSize) :
         /\ fileData' = WriteAt(fileData, jobs[s].pos, BodyBytes(jobs[s].base, n))
         /\ jobs' = [jobs EXCEPT ![s].pc = "lock_read",
                                 ![s].pos = NextPos(@, n),
                                 ![s].chunkDownloaded = @ + n,
                                 ![s].base = @ + n,
                                 ![s].rem = @ - n]
    /\ UNCHANGED otherVars
    /\ UNCHANGED <<appVars, cliVars, ghostVars>>
    /\ UNCHANGED <<envVars, pc, result, destExists, outOpen, queueVars, idle,
                   exited, received, twice, progressVars, outcomeVars,
                   singleVars>>

\* downloadChunk with attempt > 0: time.Sleep(attempt seconds), up to the
\* call of updateProgress(start, 0)
WorkerSleep(s) ==
    /\ jobs[s].pc = "backoff"
    /\ jobs' = [jobs EXCEPT ![s].pc = "lock_reset",
                            ![s].slept = Backoff(jobs[s].attempt)]
    /\ UNCHANGED otherVars
    /\ UNCHANGED <<appVars, cliVars, ghostVars>>
    /\ UNCHANGED <<envVars, pc, result, fileVars, queueVars, idle, exited,
                   received, twice, progressVars, outcomeVars, singleVars>>

\* the argument totalForChunk of the updateProgress call the goroutine is in
TotalForChunk(job) ==
    IF job.pc \in {"lock_read", "in_read"} THEN job.chunkDownloaded ELSE 0

\* (a lock that is granted to whoever asks)
CanLock_Always(holders) == TRUE

\* progressMu.Lock() returns only when no goroutine holds the mutex
CanLock(holders) == holders = {}

\* updateProgress: progressMu.Lock()
UpdateLock(s) ==
    /\ jobs[s].pc \in {"lock_read", "lock_reset"}
    /\ CanLock(inside)
    /\ inside' = inside \cup {s}
    /\ latest' = Put(latest, s, TotalForChunk(jobs[s]))
    /\ jobs' = [jobs EXCEPT ![s].pc = IF jobs[s].pc = "lock_read" THEN "in_read"
                                                                   ELSE "in_reset"]
    /\ UNCHANGED <<errVars, writerErr, dialogVars, instVars>>
    /\ UNCHANGED <<appVars, cliVars, ghostVars>>
    /\ UNCHANGED <<envVars, pc, result, fileVars, queueVars, idle, exited,
                   received, twice, progressVars, outcomeVars, singleVars>>

\* updateProgress: chunkProgress[chunkStart] = totalForChunk, the loop that
\* sums the map, progressMu.Unlock()
UpdateStore(s) ==
    /\ jobs[s].pc \in {"in_read", "in_reset"}
    /\ chunkProgress' = SetProgress(chunkProgress, s, TotalForChunk(jobs[s]))
    /\ inside' = inside \ {s}
    /\ jobs' = [jobs EXCEPT ![s].pc = IF jobs[s].pc = "in_read" THEN "cb_read"
                                                                 ELSE "cb_reset",
                            ![s].pending = Sum(chunkProgress')]
    /\ UNCHANGED <<errVars, latest, writerErr, dialogVars, instVars>>
    /\ UNCHANGED <<appVars, cliVars, ghostVars>>
    /\ UNCHANGED <<envVars, pc, result, fileVars, queueVars, idle, exited,
                   received, twice, lastProgress, calls, outcomeVars, singleVars>>

NextMutex ==
    \/ \E s \in DOMAIN jobs : WorkerRequest(s)
    \/ \E s \in DOMAIN jobs : WorkerWrite(s)
    \/ \E s \in DOMAIN jobs : WorkerSleep(s)
    \/ \E s \in DOMAIN jobs : UpdateLock(s)
    \/ \E s \in DOMAIN jobs : UpdateStore(s)
    \/ \E s \in DOMAIN jobs : WorkerCallback(s)
    \/ \E s \in DOMAIN jobs : WorkerBodyEnd(s)

\* Two fetchers whose updateProgress calls interleave.
SpecMutex == InitRetry /\ [][NextMutex]_vars

\* ------------------------------------------ a pool with chunks to spare
\* the smallest Content-Length that takes the parallel path: three chunks
PoolTotal == 2 * minChunkSize + 1

\* downloadWithProgress on the parallel path with a pool of PoolWorkers
\* goroutines, fewer than the chunks of the plan, every attempt of every
\* chunk free to fail; the order of the errors sent is recorded.
InitPool ==
    /\ oddLeft = 0
    /\ history = {"errors"}
    /\ totalSize = PoolTotal
    /\ supportsRange = TRUE
    /\ workerCount = PoolWorkers
    /\ minChunk = minChunkSize
    /\ InitDownload
    /\ AppDownloading
    /\ CliUnused
    /\ NoHistory
    /\ OthersInitial

SpecPool == InitPool /\ [][NextParallel]_vars

\* The same, with every goroutine scheduled again and again and every HTTP
\* exchange coming to an end.
SpecPoolFair == SpecPool /\ WF_vars(NextParallel)

\* ------------------------------------- the command-line downloader (romget)
\* The file that is at outputPath when downloadFile is called with a
\* destination that exists (main tests os.Stat before; the file can still
\* appear between the test and the rename).
OldFile == Zeros(1)

\* for attempt := 1; attempt <= retries; attempt++
MoreAttempts(attempt, n) == attempt <= n

\* (a wait after every failed attempt, the last one included)
SleepsAfter_Always(attempt, n) == TRUE

\* if attempt < retries { time.Sleep(2 * time.Second) }
SleepsAfter(attempt, n) == attempt < n

\* downloadFile is called: the retry loop starts its first iteration, or
\* ends at once when retries < 1
CliStart ==
    /\ pc = "c_loop"
    /\ IF MoreAttempts(1, retries)
       THEN /\ fileAttempt' = 1
            /\ pc' = "c_request"
            /\ UNCHANGED result
       ELSE /\ result' = "err"
            /\ pc' = "done"
            /\ UNCHANGED fileAttempt
    /\ UNCHANGED otherVars
    /\ UNCHANGED <<appVars, ghostVars, envVars, fileVars, queueVars, wk,
                   progressVars, outcomeVars, singleVars, tempExists, tempData,
                   retries, sleeps, lastErr>>

\* downloadAttempt has returned an error to downloadFile: lastErr = err, the
\* wait unless this was the last attempt, attempt++, and either the next
\* iteration or the return of "failed after %d attempts"
AttemptReturnsError ==
    /\ lastErr' = fileAttempt
    /\ sleeps' = IF SleepsAfter(fileAttempt, retries) THEN sleeps + 1 ELSE sleeps
    /\ IF MoreAttempts(fileAttempt + 1, retries)
       THEN /\ fileAttempt' = fileAttempt + 1
            /\ pc' = "c_request"
            /\ UNCHANGED result
       ELSE /\ result' = "err"
            /\ pc' = "done"
            /\ UNCHANGED fileAttempt

\* downloadAttempt up to the status check: createRequest, client.Do,
\* resp.StatusCode != 200
CliRequest ==
    /\ pc = "c_request"
    /\ \E r \in SingleResponses(totalSize) :
         IF r.kind = "fail"
         THEN /\ AttemptReturnsError
              /\ UNCHANGED sresp
         ELSE /\ sresp' = [base |-> r.base, rem |-> r.len, cut |-> r.cut]
              /\ pc' = "c_create"
              /\ UNCHANGED <<result, fileAttempt, sleeps, lastErr>>
    /\ UNCHANGED otherVars
    /\ UNCHANGED <<appVars, ghostVars, envVars, fileVars, queueVars, wk,
                   progressVars, outcomeVars, buffered, downloaded, tempExists,
                   tempData, retries>>

\* file, err := os.Create(tempPath); bufferedFile over it
CliCreate ==
    /\ pc = "c_create"
    /\ \/ /\ AttemptReturnsError
          /\ UNCHANGED <<tempExists, tempData, buffered>>
       \/ /\ tempExists' = TRUE
          /\ tempData' = <<>>
          /\ buffered' = <<>>
          /\ pc' = "c_copy"
          /\ UNCHANGED <<result, fileAttempt, sleeps, lastErr>>
    /\ UNCHANGED otherVars
    /\ UNCHANGED <<appVars, ghostVars, envVars, fileVars, queueVars, wk,
                   progressVars, outcomeVars, sresp, downloaded, retries>>

\* io.CopyBuffer: one Read of the body and the Write of what it delivered
CliCopy ==
    /\ pc = "c_copy"
    /\ sresp.rem > 0
    /\ \E n \in 1..Min(sresp.rem, bufferSize) :
         LET w == BufWriteSized(bufferSize, tempData, buffered,
                                BodyBytes(sresp.base, n)) IN
         /\ tempData' = w[1]
         /\ buffered' = w[2]
         /\ sresp' = [sresp EXCEPT !.base = @ + n, !.rem = @ - n]
    /\ UNCHANGED otherVars
    /\ UNCHANGED <<appVars, ghostVars, envVars, pc, result, fileVars, queueVars,
                   wk, progressVars, outcomeVars, downloaded, tempExists,
                   fileAttempt, retries, sleeps, lastErr>>

\* io.CopyBuffer returns: nil at io.EOF; on an error file.Close(),
\* os.Remove(tempPath) and the attempt returns the error
CliCopyEnd ==
    /\ pc = "c_copy"
    /\ sresp.rem = 0
    /\ IF sresp.cut
       THEN /\ \E removed \in RemoveOutcomes(FALSE) :
                 /\ tempExists' = (tempExists /\ ~removed)
                 /\ tempData' = IF removed THEN <<>> ELSE tempData
            /\ AttemptReturnsError
       ELSE /\ pc' = "c_flush"
            /\ UNCHANGED <<tempExists, tempData, result, fileAttempt, sleeps, lastErr>>
    /\ UNCHANGED otherVars
    /\ UNCHANGED <<appVars, ghostVars, envVars, fileVars, queueVars, wk,
                   progressVars, outcomeVars, singleVars, retries>>

\* bufferedFile.Flush(): on an error file.Close(), os.Remove(tempPath) and the
\* attempt returns the error; otherwise file.Close()
CliFlush ==
    /\ pc = "c_flush"
    /\ \/ /\ \E removed \in RemoveOutcomes(FALSE) :
               /\ tempExists' = (tempExists /\ ~removed)
               /\ tempData' = IF removed THEN <<>> ELSE tempData
          /\ AttemptReturnsError
          /\ UNCHANGED buffered
       \/ /\ tempData' = tempData \o buffered
          /\ buffered' = <<>>
          /\ pc' = "c_rename"
          /\ UNCHANGED <<tempExists, result, fileAttempt, sleeps, lastErr>>
    /\ UNCHANGED otherVars
    /\ UNCHANGED <<appVars, ghostVars, envVars, fileVars, queueVars, wk,
                   progressVars, outcomeVars, sresp, downloaded, retries>>

\* os.Rename(tempPath, outputPath): on an error os.Remove(tempPath) and the
\* attempt returns the error; otherwise it returns nil and so does
\* downloadFile
CliRename ==
    /\ pc = "c_rename"
    /\ \/ /\ \E removed \in RemoveOutcomes(FALSE) :
               /\ tempExists' = (tempExists /\ ~removed)
               /\ tempData' = IF removed THEN <<>> ELSE tempData
          /\ AttemptReturnsError
          /\ UNCHANGED <<destExists, fileData>>
       \/ /\ destExists' = TRUE
          /\ fileData' = tempData
          /\ tempExists' = FALSE
          /\ tempData' = <<>>
          /\ result' = "ok"
          /\ pc' = "done"
          /\ UNCHANGED <<fileAttempt, sleeps, lastErr>>
    /\ UNCHANGED otherVars
    /\ UNCHANGED <<appVars, ghostVars, envVars, outOpen, queueVars, wk,
                   progressVars, outcomeVars, singleVars, retries>>

\* downloadFile is called with any number of retries, with or without a file
\* at outputPath.
InitCli ==
    /\ oddLeft = 0
    /\ history = {}
    /\ totalSize \in 1..MaxCliTotal
    /\ supportsRange = FALSE
    /\ workerCount = numDownloadWorkers
    /\ minChunk = minChunkSize
    /\ pc = "c_loop"
    /\ result = "none"
    /\ destExists \in BOOLEAN
    /\ fileData = IF destExists THEN OldFile ELSE <<>>
    /\ outOpen = FALSE
    /\ chunkSize = 0
    /\ nextStart = 0
    /\ plan = <<>>
    /\ chunks = <<>>
    /\ chunksClosed = FALSE
    /\ errChan = 0
    /\ idle = 0
    /\ exited = 0
    /\ jobs = <<>>
    /\ received = {}
    /\ twice = FALSE
    /\ chunkProgress = <<>>
    /\ lastProgress = 0
    /\ calls = FALSE
    /\ succeeded = <<>>
    /\ rewritten = {}
    /\ failedChunks = {}
    /\ sresp = NoBody
    /\ buffered = <<>>
    /\ downloaded = 0
    /\ gpc = "idle"
    /\ cancelled = FALSE
    /\ romCache = FALSE
    /\ existed = destExists
    /\ tempExists = FALSE
    /\ tempData = <<>>
    /\ fileAttempt = 0
    /\ retries \in 0..MaxRetries
    /\ sleeps = 0
    /\ lastErr = 0
    /\ NoHistory
    /\ OthersInitial

NextCli ==
    \/ CliStart
    \/ CliRequest
    \/ CliCreate
    \/ CliCopy
    \/ CliCopyEnd
    \/ CliFlush
    \/ CliRename

SpecCli == InitCli /\ [][NextCli]_vars

\* ------------------------------------------------------- App.downloadGame
\* everything downloadWithProgress and its callees own
downloadVars == <<envVars, pc, result, fileVars, queueVars, wk, progressVars,
                  outcomeVars, singleVars>>

\* progressDialog.SetOnClosed: the user closes the dialog while the download
\* runs; the callback sets `cancelled`, which only downloadGame's goroutine
\* and its progress callback read
Cancel ==
    /\ gpc = "downloading"
    /\ pc /= "done"
    /\ ~cancelled
    /\ cancelled' = TRUE
    /\ UNCHANGED otherVars
    /\ UNCHANGED <<gpc, romCache, existed, cliVars, ghostVars, downloadVars>>

\* (a goroutine that never looks at the flag)
Abandons_Never(flag) == FALSE

\* if cancelled { os.Remove(outputPath); return }
Abandons(flag) == flag

\* downloadGame's goroutine after downloadWithProgress has returned:
\* if cancelled { os.Remove(outputPath); return }; on an error the error
\* dialog; otherwise, for a zip of a system that needs it, extractZip and
\* os.Remove(outputPath), and then a.romCache[game.Name] = true
GameReturn ==
    /\ gpc = "downloading"
    /\ pc = "done"
    /\ gpc' = "idle"
    /\ IF Abandons(cancelled)
       THEN /\ \E removed \in RemoveOutcomes(outOpen) :
                 /\ destExists' = (destExists /\ ~removed)
                 /\ fileData' = IF removed THEN <<>> ELSE fileData
            /\ UNCHANGED <<romCache, errorShown, extracted>>
       ELSE IF result = "err"
       THEN /\ errorShown' = TRUE
            /\ romCache' = FALSE
            /\ UNCHANGED <<destExists, fileData, extracted>>
       ELSE /\ romCache' = TRUE
            /\ \E needsExtract \in BOOLEAN :
                 IF needsExtract
                 THEN /\ extracted' = TRUE
                      /\ \E removed \in RemoveOutcomes(outOpen) :
                           /\ destExists' = (destExists /\ ~removed)
                           /\ fileData' = IF removed THEN <<>> ELSE fileData
                 ELSE UNCHANGED <<destExists, fileData, extracted>>
            /\ UNCHANGED errorShown
    /\ UNCHANGED <<errVars, syncVars, writerErr, instVars>>
    /\ UNCHANGED <<cancelled, existed, cliVars, ghostVars, envVars, pc, result,
                   outOpen, queueVars, wk, progressVars, outcomeVars,
                   singleVars>>

\* A download whose dialog the user may close at any moment.
NextCancel ==
    \/ Next
    \/ Cancel
    \/ GameReturn

SpecCancel == Init /\ [][NextCancel]_vars

\* The same for a launcher whose pool has PoolWorkers goroutines, with
\* resources up to the smallest one that takes the parallel path.
InitDialog ==
    /\ oddLeft = 0
    /\ history = {}
    /\ totalSize \in 1..PoolTotal
    /\ supportsRange \in BOOLEAN
    /\ workerCount = PoolWorkers
    /\ minChunk = minChunkSize
    /\ InitDownload
    /\ AppDownloading
    /\ CliUnused
    /\ NoHistory
    /\ OthersInitial

SpecDialog == InitDialog /\ [][NextCancel]_vars

\* --------------------------------------------------- App.downloadSelected
\* downloadSelected with a.romCache[game.Name] set: the status bar shows
\* "Already downloaded" and nothing is downloaded
AlreadyDownloaded ==
    /\ gpc = "idle"
    /\ romCache
    /\ gpc' = "already"
    /\ UNCHANGED otherVars
    /\ UNCHANGED <<cancelled, romCache, existed, cliVars, ghostVars, downloadVars>>

\* downloadSelected with a.romCache[game.Name] unset: downloadGame shows the
\* dialog and starts the goroutine that calls downloadWithProgress for the
\* same URL and outputPath; whatever is at outputPath stays as it is
DownloadSelected ==
    /\ gpc = "idle"
    /\ ~romCache
    /\ gpc' = "downloading"
    /\ cancelled' = FALSE
    /\ existed' = destExists
    /\ pc' = "head"
    /\ result' = "none"
    /\ headErr' = "none"
    /\ requested' = FALSE
    /\ sresp' = NoBody
    /\ buffered' = <<>>
    /\ downloaded' = 0
    /\ lastProgress' = 0
    /\ calls' = FALSE
    /\ UNCHANGED otherVars
    /\ UNCHANGED <<romCache, cliVars, writeFailed, tries, envVars, fileVars,
                   queueVars, wk, chunkProgress, outcomeVars>>

\* The launcher used again and again for one game on a server without range
\* support; the first download starts with no file at outputPath.
InitApp ==
    /\ Init
    /\ ~supportsRange

NextApp ==
    \/ AlreadyDownloaded
    \/ DownloadSelected
    \/ Cancel
    \/ GameReturn
    \/ ProbeFails
    \/ Probe
    \/ SingleRequest
    \/ SingleCreate
    \/ SingleRead
    \/ SingleBodyEnd

SpecApp == InitApp /\ [][NextApp]_vars

\* ------------------------------------------------- the installer (main.go)
\* everything of the launcher and of romget, the response body excepted
launcherVars == <<envVars, pc, result, fileVars, queueVars, wk, progressVars,
                  outcomeVars, buffered, downloaded, appVars, cliVars,
                  ghostVars, errVars, syncVars, writerErr, dialogVars>>

\* (a loop that stops one emulator early)
LoopEnds_Early(index, n) == index >= n

\* for i, emu := range emulators: no emulator is left
LoopEnds(index, n) == index > n

\* `continue`, and the end of the loop body: the next iteration
NextEmulator ==
    /\ emuIndex' = emuIndex + 1
    /\ ipc' = "loop"

\* failedEmulators = append(failedEmulators, emu.Name); continue
CountFailed ==
    /\ failedEmulators' = Append(failedEmulators, emuIndex)
    /\ NextEmulator
    /\ UNCHANGED <<installedCount, skippedCount, linuxManualInstalls>>

\* fileExists(extractPath) || (platform == "linux" && archive is an AppImage)
AlreadyInstalled(index) ==
    \/ index \in installed
    \/ platform = "linux" /\ emulators[index].appImage

\* the head of one iteration of the emulator loop, up to the call of
\* downloadFile or of extractFile
InstLoop ==
    /\ ipc = "loop"
    /\ ~LoopEnds(emuIndex, Len(emulators))
    /\ IF ~emulators[emuIndex].url
       THEN /\ IF platform = "linux"
               THEN /\ linuxManualInstalls' = Append(linuxManualInstalls, emuIndex)
                    /\ UNCHANGED failedEmulators
               ELSE /\ failedEmulators' = Append(failedEmulators, emuIndex)
                    /\ UNCHANGED linuxManualInstalls
            /\ skippedCount' = skippedCount + 1
            /\ NextEmulator
            /\ UNCHANGED installedCount
       ELSE IF AlreadyInstalled(emuIndex)
       THEN /\ installedCount' = installedCount + 1
            /\ NextEmulator
            /\ UNCHANGED <<skippedCount, failedEmulators, linuxManualInstalls>>
       ELSE /\ ipc' = IF archive[emuIndex] = -1 THEN "create" ELSE "extract"
            /\ UNCHANGED <<emuIndex, installedCount, skippedCount,
                           failedEmulators, linuxManualInstalls>>
    /\ UNCHANGED <<platform, emulators, installed, archive, runs>>
    /\ UNCHANGED <<launcherVars, sresp>>

\* the loop is over: the summary is printed
InstEnd ==
    /\ ipc = "loop"
    /\ LoopEnds(emuIndex, Len(emulators))
    /\ ipc' = "summary"
    /\ UNCHANGED <<platform, emulators, installed, archive, emuIndex,
                   installedCount, skippedCount, failedEmulators,
                   linuxManualInstalls, runs>>
    /\ UNCHANGED <<launcherVars, sresp>>

\* downloadFileWithReferer: out, err := os.Create(destPath); on an error
\* return err
InstCreate ==
    /\ ipc = "create"
    /\ \/ /\ CountFailed
          /\ UNCHANGED archive
       \/ /\ archive' = [archive EXCEPT ![emuIndex] = 0]
          /\ ipc' = "request"
          /\ UNCHANGED <<emuIndex, installedCount, skippedCount,
                         failedEmulators, linuxManualInstalls>>
    /\ UNCHANGED <<platform, emulators, installed, runs>>
    /\ UNCHANGED <<launcherVars, sresp>>

\* downloadFileWithReferer: http.NewRequest, client.Do and the status check;
\* on a failure return err
InstRequest ==
    /\ ipc = "request"
    /\ \E r \in SingleResponses(totalSize) :
         IF r.kind = "fail"
         THEN /\ CountFailed
              /\ UNCHANGED sresp
         ELSE /\ sresp' = [base |-> r.base, rem |-> r.len, cut |-> r.cut]
              /\ ipc' = "read"
              /\ UNCHANGED <<emuIndex, installedCount, skippedCount,
                             failedEmulators, linuxManualInstalls>>
    /\ UNCHANGED <<platform, emulators, installed, archive, runs>>
    /\ UNCHANGED launcherVars

\* downloadFileWithReferer: one iteration of the read loop with n > 0 whose
\* out.Write succeeds
InstRead ==
    /\ ipc = "read"
    /\ sresp.rem > 0
    /\ \E n \in 1..sresp.rem :
         /\ archive' = [archive EXCEPT ![emuIndex] = @ + n]
         /\ sresp' = [sresp EXCEPT !.base = @ + n, !.rem = @ - n]
    /\ UNCHANGED <<platform, emulators, installed, ipc, emuIndex,
                   installedCount, skippedCount, failedEmulators,
                   linuxManualInstalls, runs>>
    /\ UNCHANGED launcherVars

\* downloadFileWithReferer: one iteration of the read loop whose out.Write
\* fails after k bytes: return writeErr
InstWriteFails ==
    /\ ipc = "read"
    /\ sresp.rem > 0
    /\ \E n \in 1..sresp.rem : \E k \in 0..(n - 1) :
         archive' = [archive EXCEPT ![emuIndex] = @ + k]
    /\ CountFailed
    /\ UNCHANGED <<platform, emulators, installed, runs>>
    /\ UNCHANGED <<launcherVars, sresp>>

\* downloadFileWithReferer: the body ends: io.EOF -> return nil, another
\* read error -> return err
InstBodyEnd ==
    /\ ipc = "read"
    /\ sresp.rem = 0
    /\ IF sresp.cut
       THEN CountFailed
       ELSE /\ ipc' = "extract"
            /\ UNCHANGED <<emuIndex, installedCount, skippedCount,
                           failedEmulators, linuxManualInstalls>>
    /\ UNCHANGED <<platform, emulators, installed, archive, runs>>
    /\ UNCHANGED <<launcherVars, sresp>>

\* extractFile: os.MkdirAll(destDir) creates extractPath or fails; then the
\* extraction by file type fails, or succeeds, moving the archive away
\* (AppImage, dmg) or leaving it; on success installedCount++
InstExtract ==
    /\ ipc = "extract"
    /\ \/ /\ CountFailed
          /\ UNCHANGED <<installed, archive>>
       \/ /\ installed' = installed \cup {emuIndex}
          /\ CountFailed
          /\ UNCHANGED archive
       \/ /\ installed' = installed \cup {emuIndex}
          /\ \E moved \in BOOLEAN :
               archive' = IF moved THEN [archive EXCEPT ![emuIndex] = -1]
                          ELSE archive
          /\ installedCount' = installedCount + 1
          /\ NextEmulator
          /\ UNCHANGED <<skippedCount, failedEmulators, linuxManualInstalls>>
    /\ UNCHANGED <<platform, emulators, runs>>
    /\ UNCHANGED <<launcherVars, sresp>>

\* the user starts the installer again in the same directory
InstRerun ==
    /\ ipc = "summary"
    /\ runs < MaxRuns
    /\ runs' = runs + 1
    /\ ipc' = "loop"
    /\ emuIndex' = 1
    /\ installedCount' = 0
    /\ skippedCount' = 0
    /\ failedEmulators' = <<>>
    /\ linuxManualInstalls' = <<>>
    /\ UNCHANGED <<platform, emulators, installed, archive>>
    /\ UNCHANGED <<launcherVars, sresp>>

\* The installer at the start of its emulator loop, in a fresh directory, on
\* any platform, for any table of emulators.
InitInstall ==
    /\ oddLeft = 0
    /\ history = {}
    /\ totalSize \in 1..MaxArchiveSize
    /\ supportsRange = FALSE
    /\ workerCount = numDownloadWorkers
    /\ minChunk = minChunkSize
    /\ InitDownload
    /\ gpc = "idle"
    /\ cancelled = FALSE
    /\ romCache = FALSE
    /\ existed = FALSE
    /\ CliUnused
    /\ NoHistory
    /\ errOrder = <<>>
    /\ returned = -1
    /\ inside = {}
    /\ latest = <<>>
    /\ writerErr = FALSE
    /\ errorShown = FALSE
    /\ extracted = FALSE
    /\ platform \in {"windows", "linux", "darwin"}
    /\ emulators \in [1..NumEmulators -> [url : BOOLEAN, appImage : BOOLEAN]]
    /\ installed = {}
    /\ archive = [e \in 1..NumEmulators |-> -1]
    /\ ipc = "loop"
    /\ emuIndex = 1
    /\ installedCount = 0
    /\ skippedCount = 0
    /\ failedEmulators = <<>>
    /\ linuxManualInstalls = <<>>
    /\ runs = 1

NextInstall ==
    \/ InstLoop
    \/ InstEnd
    \/ InstCreate
    \/ InstRequest
    \/ InstRead
    \/ InstWriteFails
    \/ InstBodyEnd
    \/ InstExtract
    \/ InstRerun

SpecInstall == InitInstall /\ [][NextInstall]_vars

\* ================================================================ claims
SourceFile == [i \in 1..totalSize |-> Source(i - 1)]

ChunkLen(c) == c.end - c.start + 1

SumLens(p) ==
    LET RECURSIVE L(_)
        L(i) == IF i = 0 THEN 0 ELSE ChunkLen(p[i]) + L(i - 1)
    IN L(Len(p))

\* the starts of the chunks the planner makes for the probed size
PlannedStarts == {s \in 0..(totalSize - 1) : s % chunkSize = 0}

SucceededSet == {succeeded[i] : i \in 1..Len(succeeded)}

\* the file holds the bytes of the resource at the offsets lo..hi
RangeIsSource(lo, hi) ==
    \A o \in lo..hi : o + 1 <= Len(fileData) /\ fileData[o + 1] = Source(o)

\* C1: a download that returns an error leaves no file at the destination
\* path.
C1_ErrorLeavesNoFile == result = "err" => ~destExists

\* C2: while the download is in progress no file exists at the destination
\* path.
C2_NoFileWhileInProgress == result = "none" => ~destExists

\* C3: the chunks the planner queues partition [0, totalSize): the first
\* starts at 0, each one starts right after the end of the one before, none is
\* empty, no two overlap, and once the loop has ended the last one ends at
\* totalSize - 1 and the lengths sum to totalSize.
C3_PlanPartitions ==
    /\ \A i \in 1..Len(plan) : plan[i].start <= plan[i].end
    /\ Len(plan) > 0 => plan[1].start = 0
    /\ \A i \in 2..Len(plan) : plan[i].start = plan[i - 1].end + 1
    /\ \A i, j \in 1..Len(plan) : i < j => plan[i].end < plan[j].start
    /\ pc = "p_wait" => /\ Len(plan) > 0
                        /\ plan[Len(plan)].end = totalSize - 1
                        /\ SumLens(plan) = totalSize

\* C3 witness: a finished plan of at least three chunks whose last chunk was
\* clamped, for a worker count other than the program's.
C3_Witness ==
    /\ pc = "p_wait"
    /\ Len(plan) >= 3
    /\ ChunkLen(plan[Len(plan)]) < chunkSize
    /\ workerCount /= numDownloadWorkers
    /\ C3_PlanPartitions

\* C4: every positioned write of the worker fetching chunk [start, end] lies
\* inside [start, end], whatever the server sends.
C4_WritesWithinOwnRange ==
    \A s \in DOMAIN jobs :
        jobs[s].chunkDownloaded > 0 => jobs[s].pos - 1 <= jobs[s].end

\* C5: when a parallel download returns success, byte i of the file is byte i
\* of the resource, whatever the order in which the chunks completed.
C5_FinalContentIsSource ==
    (result = "ok" /\ Len(plan) > 0) => fileData = SourceFile

\* C5 witness: a successful parallel download whose chunks did not complete in
\* offset order.
C5_Witness ==
    /\ result = "ok"
    /\ Len(succeeded) >= 3
    /\ succeeded[1] > succeeded[2]
    /\ fileData = SourceFile

\* C6: downloadParallel returns success if and only if every planned chunk was
\* fetched successfully; if a chunk has exhausted its retries it returns a
\* failure.
C6_SuccessIffAllChunks ==
    (pc = "done" /\ chunkSize > 0) =>
        /\ (result = "ok") <=> (PlannedStarts \subseteq SucceededSet)
        /\ failedChunks /= {} => result = "err"

\* C6 witness: downloadParallel has returned a failure after one chunk
\* exhausted its retries although other chunks were fetched.
C6_Witness ==
    /\ pc = "done"
    /\ result = "err"
    /\ failedChunks /= {}
    /\ succeeded /= <<>>

\* C7: after a chunk has exhausted its retries and downloadParallel has
\* returned, no file exists at the destination path (the code has no
\* temporary path).
C7_AbortRemovesFile == (pc = "done" /\ failedChunks /= {}) => ~destExists

\* C8: a chunk fetched successfully holds exactly the bytes of the resource in
\* its range, also when an earlier attempt failed after writing part of the
\* range, and the file keeps its size: the retry rewrites the range from its
\* start.
C8_RetryRewritesRange ==
    /\ Len(fileData) = totalSize
    /\ \A s \in SucceededSet : RangeIsSource(s, ChunkEnd(s, chunkSize, totalSize))

\* C8 witness: a chunk that failed part-way and succeeded on a later attempt.
C8_Witness ==
    \E s \in rewritten :
        /\ s \in SucceededSet
        /\ RangeIsSource(s, ChunkEnd(s, chunkSize, totalSize))

\* C9: the totals passed to the progress callback never decrease.
C9_ProgressNonDecreasing == [][lastProgress' >= lastProgress]_vars

\* C10: when the download has returned success, the last call of the progress
\* callback reported totalSize.
C10_LastCallbackIsTotal == result = "ok" => (calls /\ lastProgress = totalSize)

\* a worker goes on fetching: it takes a chunk from the queue or sends a
\* ranged GET
FetchGoesOn ==
    \/ WorkerRecv
    \/ \E s \in DOMAIN jobs : WorkerRequest(s)

\* C11: once the caller has cancelled, no worker takes another chunk from the
\* queue or starts another fetch, and the download, when it is over, has
\* returned a cancellation error and left no file at the destination.
C11_CancelStopsDownload ==
    /\ [][cancelled => ~FetchGoesOn]_vars
    /\ []((cancelled /\ gpc = "idle") => (result = "cancelled" /\ ~destExists))

\* C12: a download invoked while a file exists at the destination sends no
\* HTTP request.
C12_ExistingFileNoRequest == (gpc = "downloading" /\ existed) => ~requested

\* downloadWithProgress has called downloadParallel
OnParallelPath ==
    \/ pc \in {"p_create", "p_truncate", "p_queue", "p_wait"}
    \/ pc = "done" /\ chunkSize > 0

\* downloadWithProgress has called downloadSingle
OnSinglePath ==
    \/ pc \in {"s_request", "s_create", "s_read"}
    \/ pc = "done" /\ chunkSize = 0 /\ headErr = "none"

\* C13: after an answered probe the download is on exactly one of the two
\* paths; it is on the parallel path only if the server advertises range
\* support and totalSize > 2 * minChunkSize, and on the single-stream path
\* only if the server does not or totalSize <= 2 * minChunkSize.
C13_PathSelection ==
    /\ (pc /= "head" /\ headErr = "none") => (OnParallelPath /= OnSinglePath)
    /\ OnParallelPath => (supportsRange /\ totalSize > 2 * minChunkSize)
    /\ OnSinglePath => (~supportsRange \/ totalSize <= 2 * minChunkSize)

\* C13 witness: a resource of exactly 2 * minChunkSize on a server with range
\* support is being read single-stream.
C13_Witness ==
    /\ pc = "s_read"
    /\ supportsRange
    /\ totalSize = 2 * minChunkSize
    /\ downloaded > 0

\* C14: the download ends at probe time only when the HEAD request cannot be
\* constructed; a transport error of the probe is not fatal.
C14_ProbeErrorNotFatal == [][(pc = "head" /\ pc' = "done") => headErr' = "request"]_vars

\* C15: a chunk whose positioned write has failed is not fetched again: its
\* worker has reported the chunk as failed and makes no further attempt.
C15_WriteErrorNotRetried ==
    \A s \in writeFailed : s \notin DOMAIN jobs /\ s \in failedChunks

\* 40 MB, the size of scenario A: ten times minChunkSize (4 MB)
ScenarioATotal == 10 * minChunkSize

\* C16: for a resource of 40 MB with 4 workers and a minimum chunk size of
\* 4 MB the planner emits exactly 10 chunks of 4 MB each.
C16_ScenarioATenChunks ==
    (/\ totalSize = ScenarioATotal
     /\ workerCount = numDownloadWorkers
     /\ minChunk = minChunkSize
     /\ pc = "p_wait")
    => /\ Len(plan) = 10
       /\ \A i \in 1..Len(plan) : ChunkLen(plan[i]) = minChunkSize

\* C17: a download in which every chunk was fetched, whatever the number of
\* attempts each one took, returns success, and then the progress recorded
\* for each chunk is the length of its range and the recorded values sum to
\* totalSize.
C17_RetriedChunkCountsOnce ==
    /\ (pc = "done" /\ PlannedStarts \subseteq DOMAIN tries) => result = "ok"
    /\ result = "ok" =>
          /\ \A i \in 1..Len(plan) :
                /\ plan[i].start \in DOMAIN chunkProgress
                /\ chunkProgress[plan[i].start] = ChunkLen(plan[i])
          /\ Sum(chunkProgress) = totalSize

\* C17 witness: a successful download with a chunk that was fetched on its
\* third attempt.
C17_Witness ==
    /\ result = "ok"
    /\ \E s \in DOMAIN tries :
          /\ tries[s] = maxChunkRetries - 1
          /\ chunkProgress[s] = ChunkEnd(s, chunkSize, totalSize) - s + 1

\* what is at outputPath is what was there when downloadFile was called
DestUnchanged ==
    /\ destExists = existed
    /\ fileData = IF existed THEN OldFile ELSE <<>>

\* C18: in the command-line downloader the temporary file exists only while
\* an attempt is between os.Create and its end; until downloadFile has
\* returned nil, and when it has returned an error, the destination is as it
\* was and (after an error) no temporary file is left; when it has returned
\* nil the destination holds the whole body and the temporary file is gone.
C18_DestinationOnlyByRename ==
    /\ tempExists => pc \in {"c_copy", "c_flush", "c_rename"}
    /\ result /= "ok" => DestUnchanged
    /\ result = "err" => ~tempExists
    /\ result = "ok" => (destExists /\ fileData = SourceFile /\ ~tempExists)

\* C18 witness: downloadFile has returned an error after an attempt whose
\* copy broke off part-way, with a file at the destination from before.
C18_Witness ==
    /\ result = "err"
    /\ sresp.cut
    /\ sresp.base > 0
    /\ existed
    /\ fileData = OldFile
    /\ ~tempExists

\* C19: downloadFile makes at most `retries` attempts, has slept once between
\* each two consecutive attempts and not after the last, has made `retries`
\* attempts when it returns an error, which wraps the error of the last of
\* them, makes none after a success, and what an
\* attempt has put into the temporary file is exactly the body of its own
\* response from byte zero on.
C19_WholeDownloadRetry ==
    /\ fileAttempt <= retries
    /\ fileAttempt >= 1 => sleeps = fileAttempt - 1
    /\ result = "err" => (fileAttempt = retries /\ lastErr = retries)
    /\ result = "ok" => pc = "done"
    /\ pc \in {"c_copy", "c_flush"} => tempData \o buffered = BodyBytes(0, sresp.base)
    /\ pc = "c_rename" => tempData = BodyBytes(0, sresp.base)

\* C19 witness: downloadFile has returned an error after at least two
\* attempts, one of which had copied part of the body.
C19_Witness ==
    /\ result = "err"
    /\ retries >= 2
    /\ fileAttempt = retries
    /\ sleeps = retries - 1
    /\ sresp.base > 0

\* what C20 says of every state
ChunkRetryState ==
    /\ \A s \in DOMAIN jobs :
          /\ jobs[s].attempt < maxChunkRetries
          /\ jobs[s].attempt = 0 => jobs[s].slept = 0
          /\ (jobs[s].attempt >= 1 /\ jobs[s].pc /= "backoff") =>
                jobs[s].slept = jobs[s].attempt
          /\ (jobs[s].attempt >= 1 /\ jobs[s].pc \in {"cb_reset", "attempt"}) =>
                chunkProgress[s] = 0
    /\ \A s \in SucceededSet \cup failedChunks : s \notin DOMAIN jobs
    /\ SucceededSet \cap failedChunks = {}
    /\ errChan = Cardinality(failedChunks)

\* what C20 says of every step
ChunkRetryStep ==
    \A s \in DOMAIN jobs :
        /\ s \in failedChunks' => jobs[s].attempt = maxChunkRetries - 1
        /\ (s \in DOMAIN jobs' /\ jobs'[s].attempt /= jobs[s].attempt) =>
              /\ jobs'[s].attempt = jobs[s].attempt + 1
              /\ jobs'[s].pc = "backoff"

\* C20: a chunk gets at most maxChunkRetries attempts, numbered from 0; the
\* k-th re-attempt follows a sleep of k seconds and a reset of the chunk's
\* progress to 0; a chunk that was fetched or reported as failed gets no
\* further attempt; a chunk is reported as failed only by its last attempt,
\* once.
C20_ChunkRetryLoop == []ChunkRetryState /\ [][ChunkRetryStep]_vars

\* C20 witness: one chunk was reported as failed while another is reading
\* the response of its third attempt, after the sleep that precedes it.
C20_Witness ==
    /\ failedChunks /= {}
    /\ \E s \in DOMAIN jobs :
          /\ jobs[s].pc = "read"
          /\ jobs[s].attempt = maxChunkRetries - 1
          /\ jobs[s].slept = maxChunkRetries - 1
    /\ ChunkRetryState

\* C21: a chunk fetch attempt reports success only after it has written as
\* many bytes as its range is long: a body that ends with io.EOF before or
\* beyond the end of the range is not accepted.
C21_SuccessNeedsWholeRange ==
    [][\A s \in DOMAIN jobs :
          (s \in SucceededSet' /\ s \notin SucceededSet) =>
              jobs[s].chunkDownloaded = jobs[s].end - s + 1]_vars

\* the target chunk size, max(totalSize div workerCount, minChunkSize)
TargetChunkSize ==
    IF totalSize \div workerCount >= minChunk THEN totalSize \div workerCount
    ELSE minChunk

\* C22: every planned chunk except possibly the last has length exactly
\* max(totalSize div workerCount, minChunkSize); the last one is not empty and
\* not longer than that.
C22_ChunkLengths ==
    /\ \A i \in 1..Len(plan) :
          /\ ChunkLen(plan[i]) >= 1
          /\ ChunkLen(plan[i]) <= TargetChunkSize
    /\ \A i \in 1..(Len(plan) - 1) : ChunkLen(plan[i]) = TargetChunkSize
    /\ (Len(plan) > 0 /\ pc = "p_queue" /\ nextStart < totalSize) =>
          ChunkLen(plan[Len(plan)]) = TargetChunkSize

\* C22 witness: a finished plan in which the minimum chunk size decided the
\* target, with full chunks followed by a shorter last one.
C22_Witness ==
    /\ pc = "p_wait"
    /\ totalSize \div workerCount < minChunk
    /\ Len(plan) >= 2
    /\ ChunkLen(plan[1]) = minChunk
    /\ ChunkLen(plan[Len(plan)]) < minChunk

\* the starts of the chunks the queue loop has produced
PlanStarts == {plan[i].start : i \in 1..Len(plan)}

\* goroutines inside downloadChunk
InFlight == Cardinality(DOMAIN jobs)

\* C23: at most workerCount chunk fetches are in flight at any moment, no
\* chunk is received from the queue twice, and when downloadParallel has
\* returned without a chunk having failed terminally, every planned chunk was
\* received and fetched to success exactly once.
C23_PoolDiscipline ==
    /\ InFlight <= workerCount
    /\ idle + exited + InFlight \in {0, workerCount}
    /\ ~twice
    /\ received \subseteq PlanStarts
    /\ (pc = "done" /\ chunksClosed /\ failedChunks = {}) =>
          /\ received = PlanStarts
          /\ SucceededSet = PlanStarts
          /\ Len(succeeded) = Len(plan)

\* C23 witness: a download of more chunks than workers has returned success,
\* every chunk fetched once.
C23_Witness ==
    /\ pc = "done"
    /\ result = "ok"
    /\ Len(plan) > workerCount
    /\ Len(succeeded) = Len(plan)
    /\ SucceededSet = PlanStarts
    /\ ~twice

\* neither the send of a chunk nor the send of an error can block
SendsNeverBlock ==
    /\ Len(plan) <= workerCount + 1
    /\ Len(plan) <= chunksCap(workerCount)
    /\ (pc = "p_queue" /\ nextStart < totalSize) =>
          Len(chunks) < chunksCap(workerCount)
    /\ errChan <= exited
    /\ errChan + InFlight <= errChanCap(workerCount)

\* C27: downloadParallel returns once every fetch attempt has returned,
\* whatever the outcomes of the chunks: the plan has at most workerCount + 1
\* chunks, which the job channel holds without a receiver, so the queue loop
\* never waits; every goroutine still running can send its one error without
\* waiting; and the download comes to its end.
C27_AlwaysReturns == []SendsNeverBlock /\ <>(pc = "done")

\* C27 witness: downloadParallel has returned after every worker had exited
\* on a failure, a chunk still in the queue.
C27_Witness ==
    /\ pc = "done"
    /\ result = "err"
    /\ chunksClosed
    /\ errChan = workerCount
    /\ exited = workerCount
    /\ chunks /= <<>>

\* what C28 says of every state
FailureState ==
    /\ Cardinality(failedChunks) <= workerCount
    /\ errChan = Cardinality(failedChunks)
    /\ pc \in {"p_queue", "p_wait"} => (destExists /\ result = "none")
    /\ (idle > 0 /\ chunks /= <<>>) => ENABLED WorkerRecv
    /\ (pc = "done" /\ chunksClosed) =>
          /\ exited = workerCount
          /\ InFlight = 0
          /\ PlanStarts = SucceededSet \cup failedChunks
                            \cup {chunks[i].start : i \in 1..Len(chunks)}
          /\ chunks /= <<>> => Cardinality(failedChunks) = workerCount
          /\ failedChunks /= {} =>
                /\ result = "err"
                /\ returned = errOrder[1]

\* what C28 says of every step: the goroutine whose chunk fails terminally
\* exits, and the other goroutines are where they were; the file goes away
\* only in the step that returns, every worker gone
FailureStep ==
    /\ \A s \in DOMAIN jobs :
          (s \in failedChunks' /\ s \notin failedChunks) =>
              /\ exited' = exited + 1
              /\ idle' = idle
              /\ jobs' = Drop(jobs, s)
              /\ chunks' = chunks
              /\ pc' = pc
    /\ (destExists /\ ~destExists') =>
          (pc = "p_wait" /\ pc' = "done" /\ exited = workerCount)

\* C28: a chunk's terminal failure ends its worker and nothing else: the
\* worker exits without taking another chunk, the others go on receiving the
\* queued chunks, and downloadParallel returns the first error sent, and
\* removes the file, only when every worker has exited; a chunk is left in
\* the queue only if every worker failed, and at most workerCount chunks fail.
C28_FailureIsLocal == []FailureState /\ [][FailureStep]_vars

\* C28 witness: downloadParallel has returned the error of the one chunk that
\* failed, the other chunks fetched by the remaining worker.
C28_Witness ==
    /\ pc = "done"
    /\ result = "err"
    /\ Cardinality(failedChunks) = 1
    /\ returned \in failedChunks
    /\ Len(succeeded) = Len(plan) - 1
    /\ exited = workerCount
    /\ ~destExists

\* what C24 says of every step: the map changes, and a total is computed,
\* only in a step of the goroutine that holds the mutex, and the total is the
\* sum of the values reported last for each chunk
ProgressStep ==
    /\ chunkProgress' /= chunkProgress => \E s \in inside : s \notin inside'
    /\ \A s \in DOMAIN jobs :
          (s \in DOMAIN jobs' /\ jobs'[s].pending /= jobs[s].pending
             /\ jobs'[s].pending /= 0) =>
              /\ s \in inside
              /\ jobs'[s].pending = Sum(latest)
              /\ chunkProgress' = latest

\* C24: at most one goroutine is inside the critical section of
\* updateProgress; every update of chunkProgress and every summing of it
\* happens there; and each total computed is the sum, over the chunks
\* reported so far, of the value reported last for each (a report replaces
\* the chunk's value).
C24_ProgressUnderMutex ==
    /\ [](Cardinality(inside) <= 1)
    /\ [](inside = {} => chunkProgress = latest)
    /\ [][ProgressStep]_vars

\* C24 witness: one goroutine is inside the critical section with its second
\* report of a chunk while the other waits for the lock, its chunk reported
\* before.
C24_Witness ==
    \E s \in inside : \E t \in DOMAIN jobs :
        /\ t /= s
        /\ jobs[t].pc \in {"lock_read", "lock_reset"}
        /\ t \in DOMAIN latest
        /\ latest[t] > 0
        /\ s \in DOMAIN chunkProgress
        /\ chunkProgress[s] > 0
        /\ latest[s] /= chunkProgress[s]

\* C25: a single-stream download in which a write to the output file has
\* failed (in bufferedOut.Write or in the final Flush) does not return
\* success; a download that returns success has written every byte.
C25_WriteErrorIsReturned ==
    (result = "ok" /\ OnSinglePath) => (~writerErr /\ fileData = SourceFile)

\* what C29 says of every state: the goroutine of a download whose dialog
\* was closed ends only after downloadWithProgress has returned, and leaves
\* no file, no romCache entry, no extraction and no error dialog
CancelledState ==
    (cancelled /\ gpc = "idle") =>
        /\ pc = "done"
        /\ result \in {"ok", "err"}
        /\ ~destExists
        /\ ~romCache
        /\ ~extracted
        /\ ~errorShown

\* what C29 says of every step: closing the dialog changes nothing of the
\* download, and the download's file stays until downloadWithProgress has
\* returned unless downloadParallel removes it itself
CancelledStep ==
    /\ (cancelled' /\ ~cancelled) => UNCHANGED downloadVars
    /\ (cancelled /\ gpc' = "idle" /\ gpc = "downloading") => pc = "done"

\* C29: when the dialog is closed before downloadWithProgress returns, the
\* download runs on to its own end, and after it has returned, with success
\* or with an error, the destination file is removed, romCache is not set,
\* nothing is extracted and no error dialog is shown.
C29_ClosedDialogDiscards == []CancelledState /\ [][CancelledStep]_vars

\* C29 witness: the dialog was closed, the parallel download went on to
\* return success, and the goroutine has removed the whole file.
C29_Witness ==
    /\ cancelled
    /\ gpc = "idle"
    /\ result = "ok"
    /\ Len(plan) > 0
    /\ Len(succeeded) = Len(plan)
    /\ ~destExists
    /\ ~romCache

\* downloadFile is running for emulator e
Downloading(e) == ipc \in {"request", "read"} /\ emuIndex = e

\* C26: in the installer a file is at an emulator's downloadPath, outside a
\* running downloadFile, only if a download of it completed; so the archive
\* that extractFile is given, after a download or on the "already
\* downloaded" path, is whole.
C26_FailedDownloadLeavesNoFile ==
    /\ \A e \in 1..Len(emulators) :
          (archive[e] /= -1 /\ ~Downloading(e)) => archive[e] = totalSize
    /\ ipc = "extract" => archive[emuIndex] = totalSize

\* emulators counted so far
Counted == installedCount + Len(failedEmulators) + Len(linuxManualInstalls)

\* the names appended to the two lists
Listed == failedEmulators \o linuxManualInstalls

\* C30: every iteration of the emulator loop counts its emulator in exactly
\* one of installedCount, failedEmulators and linuxManualInstalls, so after
\* the loop the three add up to the number of emulators, on every platform
\* and whatever the downloads and extractions did.
C30_EveryEmulatorCountedOnce ==
    /\ ipc = "summary" => Counted = Len(emulators)
    /\ ipc = "loop" => Counted = emuIndex - 1
    /\ ipc \in {"create", "request", "read", "extract"} =>
          (Counted = emuIndex - 1 /\ emuIndex <= Len(emulators))
    /\ \A i, j \in 1..Len(Listed) : i /= j => Listed[i] /= Listed[j]
    /\ \A i \in 1..Len(Listed) : Listed[i] < emuIndex
    /\ platform /= "linux" => linuxManualInstalls = <<>>

\* C30 witness: on Linux the loop has ended with one emulator in each of
\* the lists, the failed one after a download that broke off.
C30_Witness ==
    /\ ipc = "summary"
    /\ platform = "linux"
    /\ Len(linuxManualInstalls) = 1
    /\ Len(failedEmulators) = 1
    /\ \E e \in 1..Len(emulators) : archive[e] /= -1 /\ archive[e] < totalSize
    /\ Counted = Len(emulators)

====
